---- MODULE Spec2Model ----
(***************************************************************************)
(* A model of 0x02-redis_basic/exercise.py: the Cache class, its          *)
(* count_calls and call_history decorators and the replay reporter, over   *)
(* a model of the Redis commands they issue (SET, GET, INCR, RPUSH,        *)
(* LRANGE, EXISTS, FLUSHDB).                                               *)
(*                                                                         *)
(* Representation.  A Python str is a sequence of code points, a bytes     *)
(* object and every Redis key and value a sequence of bytes (0..255).      *)
(* Every Python value is a record [t, n, s]: t the type tag, n the number  *)
(* (int, float in tenths), s the characters or bytes.  A raised exception  *)
(* is a value whose tag starts with "raise:".                              *)
(***************************************************************************)
EXTENDS Integers, Sequences, FiniteSets, TLC

(***************************************************************************)
(* Bounds of the model.                                                    *)
(***************************************************************************)
\* store calls begun in one run (each draws at most one UUID)
MaxCalls == 2
\* Cache objects the program may construct
NumInstances == 2
\* callers (threads of control) that may use the Cache objects
NumCallers == 2

(***************************************************************************)
(* Python values.                                                          *)
(***************************************************************************)
PyStr(s) == [t |-> "str", n |-> 0, s |-> s]
PyBytes(b) == [t |-> "bytes", n |-> 0, s |-> b]
PyInt(n) == [t |-> "int", n |-> n, s |-> <<>>]
PyFloat(tenths) == [t |-> "float", n |-> tenths, s |-> <<>>]
PyNone == [t |-> "None", n |-> 0, s |-> <<>>]
Raise(e) == [t |-> e, n |-> 0, s |-> <<>>]

DataError == "raise:DataError"
ValueError == "raise:ValueError"
UnicodeDecodeError == "raise:UnicodeDecodeError"
ResponseError == "raise:ResponseError"
ConnectionError == "raise:ConnectionError"
AttributeError == "raise:AttributeError"

IsRaise(v) ==
    v.t \in {DataError, ValueError, UnicodeDecodeError, ResponseError, ConnectionError,
             AttributeError}

(***************************************************************************)
(* Text: ASCII decimal numbers, UTF-8, repr().                             *)
(***************************************************************************)
RECURSIVE Digits(_)
\* the decimal digits of a natural number, as ASCII codes
Digits(n) == IF n < 10 THEN <<48 + n>> ELSE Digits(n \div 10) \o <<48 + (n % 10)>>

\* repr(n) of a Python int, as ASCII codes
IntRepr(n) == IF n < 0 THEN <<45>> \o Digits(0 - n) ELSE Digits(n)

\* repr(x) of a non-negative Python float with one decimal, given in tenths
FloatRepr(tenths) == Digits(tenths \div 10) \o <<46>> \o Digits(tenths % 10)

RECURSIVE DigitsValue(_)
\* the number a non-empty sequence of ASCII digits denotes
DigitsValue(b) ==
    IF Len(b) = 1 THEN b[1] - 48
    ELSE 10 * DigitsValue(SubSeq(b, 1, Len(b) - 1)) + (b[Len(b)] - 48)

AllDigits(b) == Len(b) > 0 /\ \A i \in 1..Len(b) : b[i] \in 48..57

\* int(b) of Python on a bytes object: an optional sign and decimal digits,
\* anything else raises ValueError
PyIntOf(b) ==
    IF AllDigits(b) THEN PyInt(DigitsValue(b))
    ELSE IF Len(b) > 1 /\ b[1] = 45 /\ AllDigits(Tail(b)) THEN PyInt(0 - DigitsValue(Tail(b)))
    ELSE IF Len(b) > 1 /\ b[1] = 43 /\ AllDigits(Tail(b)) THEN PyInt(DigitsValue(Tail(b)))
    ELSE Raise(ValueError)

RECURSIVE Utf8Encode(_)
\* s.encode('utf-8') for code points below 0x800
Utf8Encode(s) ==
    IF s = <<>> THEN <<>>
    ELSE (IF Head(s) < 128 THEN <<Head(s)>>
          ELSE <<192 + (Head(s) \div 64), 128 + (Head(s) % 64)>>) \o Utf8Encode(Tail(s))

RECURSIVE Utf8Valid(_)
\* whether b is well-formed UTF-8 of code points below 0x800
Utf8Valid(b) ==
    IF b = <<>> THEN TRUE
    ELSE IF Head(b) < 128 THEN Utf8Valid(Tail(b))
    ELSE IF Head(b) \in 194..223 /\ Len(b) >= 2 /\ b[2] \in 128..191
         THEN Utf8Valid(Tail(Tail(b)))
    ELSE FALSE

RECURSIVE Utf8Chars(_)
\* the code points of well-formed UTF-8
Utf8Chars(b) ==
    IF b = <<>> THEN <<>>
    ELSE IF Head(b) < 128 THEN <<Head(b)>> \o Utf8Chars(Tail(b))
    ELSE <<(Head(b) - 192) * 64 + (b[2] - 128)>> \o Utf8Chars(Tail(Tail(b)))

\* b.decode('utf-8')
Utf8Decode(b) == IF Utf8Valid(b) THEN PyStr(Utf8Chars(b)) ELSE Raise(UnicodeDecodeError)

HexDigit(d) == IF d < 10 THEN 48 + d ELSE 87 + d

RECURSIVE BytesEscape(_)
\* the body of repr(b) of a bytes object: printable ASCII as is, the rest as \xhh
BytesEscape(b) ==
    IF b = <<>> THEN <<>>
    ELSE (IF Head(b) \in 32..126 /\ Head(b) \notin {39, 92} THEN <<Head(b)>>
          ELSE <<92, 120, HexDigit(Head(b) \div 16), HexDigit(Head(b) % 16)>>)
         \o BytesEscape(Tail(b))

\* repr(v) as code points (str: printable characters without quotes or backslashes)
Repr(v) ==
    CASE v.t = "str" -> <<39>> \o v.s \o <<39>>
      [] v.t = "bytes" -> <<98, 39>> \o BytesEscape(v.s) \o <<39>>
      [] v.t = "int" -> IntRepr(v.n)
      [] v.t = "float" -> FloatRepr(v.n)
      [] OTHER -> <<78, 111, 110, 101>>

\* str(args) of the one-element tuple args = (v,)
StrArgs(v) == PyStr(<<40>> \o Repr(v) \o <<44, 41>>)

(***************************************************************************)
(* redis-py and the Redis server.  The database maps keys (bytes) to      *)
(* typed values: [type |-> "string", s |-> bytes] or                       *)
(* [type |-> "list", l |-> sequence of bytes].  A command yields the new   *)
(* database and the reply, a Python value.                                 *)
(***************************************************************************)
EmptyDb == [k \in {} |-> [type |-> "string", s |-> <<>>, l |-> <<>>]]

RString(b) == [type |-> "string", s |-> b, l |-> <<>>]
RList(l) == [type |-> "list", s |-> <<>>, l |-> l]

Put(d, k, val) == [x \in DOMAIN d \cup {k} |-> IF x = k THEN val ELSE d[x]]

\* redis-py's Encoder.encode: bytes as they are, str in UTF-8, int and float by
\* repr(), every other type raises DataError
Encode(v) ==
    CASE v.t = "bytes" -> PyBytes(v.s)
      [] v.t = "str" -> PyBytes(Utf8Encode(v.s))
      [] v.t = "int" -> PyBytes(IntRepr(v.n))
      [] v.t = "float" -> PyBytes(FloatRepr(v.n))
      [] OTHER -> Raise(DataError)

\* a variant of flushdb that deletes nothing
flushdb_nothing(d) == d

\* a variant of flushdb that deletes only the string keys
flushdb_strings_only(d) == [k \in {x \in DOMAIN d : d[x].type = "list"} |-> d[k]]

\* FLUSHDB
flushdb(d) == EmptyDb

\* the record of a command sent to the server: its name and its key
Cmd(name, kb) == [name |-> name, key |-> kb]

\* a command of the client: the database afterwards, the reply (or the exception
\* raised) and the commands sent to the server (none when encoding an argument
\* raises)
Sent(name, kb, d, reply) == [db |-> d, reply |-> reply, cmds |-> <<Cmd(name, kb)>>]
NotSent(d, e) == [db |-> d, reply |-> e, cmds |-> <<>>]

\* SET key value
set(d, k, v) ==
    IF IsRaise(Encode(k)) THEN NotSent(d, Encode(k))
    ELSE IF IsRaise(Encode(v)) THEN NotSent(d, Encode(v))
    ELSE Sent("SET", Encode(k).s, Put(d, Encode(k).s, RString(Encode(v).s)), PyInt(1))

\* GET key
get(d, k) ==
    LET kb == Encode(k).s IN
    IF kb \notin DOMAIN d THEN Sent("GET", kb, d, PyNone)
    ELSE IF d[kb].type # "string" THEN Sent("GET", kb, d, Raise(ResponseError))
    ELSE Sent("GET", kb, d, PyBytes(d[kb].s))

\* a variant of incr that adds 2
incr_by_two(d, k) ==
    LET kb == Encode(k).s IN
    IF kb \notin DOMAIN d THEN Sent("INCR", kb, Put(d, kb, RString(IntRepr(2))), PyInt(2))
    ELSE IF d[kb].type # "string" \/ IsRaise(PyIntOf(d[kb].s))
         THEN Sent("INCR", kb, d, Raise(ResponseError))
    ELSE Sent("INCR", kb, Put(d, kb, RString(IntRepr(PyIntOf(d[kb].s).n + 2))),
              PyInt(PyIntOf(d[kb].s).n + 2))

\* INCR key
incr(d, k) ==
    LET kb == Encode(k).s IN
    IF kb \notin DOMAIN d THEN Sent("INCR", kb, Put(d, kb, RString(IntRepr(1))), PyInt(1))
    ELSE IF d[kb].type # "string" \/ IsRaise(PyIntOf(d[kb].s))
         THEN Sent("INCR", kb, d, Raise(ResponseError))
    ELSE Sent("INCR", kb, Put(d, kb, RString(IntRepr(PyIntOf(d[kb].s).n + 1))),
              PyInt(PyIntOf(d[kb].s).n + 1))

\* RPUSH key value
rpush(d, k, v) ==
    LET kb == Encode(k).s IN
    IF IsRaise(Encode(v)) THEN NotSent(d, Encode(v))
    ELSE IF kb \notin DOMAIN d
         THEN Sent("RPUSH", kb, Put(d, kb, RList(<<Encode(v).s>>)), PyInt(1))
    ELSE IF d[kb].type # "list" THEN Sent("RPUSH", kb, d, Raise(ResponseError))
    ELSE Sent("RPUSH", kb, Put(d, kb, RList(Append(d[kb].l, Encode(v).s))),
              PyInt(Len(d[kb].l) + 1))

\* LRANGE key 0 -1: the whole list, the empty list for a key that does not exist
lrange(d, k) ==
    LET kb == Encode(k).s IN
    IF kb \notin DOMAIN d \/ d[kb].type # "list" THEN <<>>
    ELSE d[kb].l

\* EXISTS key
exists(d, k) == IF Encode(k).s \in DOMAIN d THEN 1 ELSE 0

(***************************************************************************)
(* Names.                                                                  *)
(***************************************************************************)
\* store.__qualname__, "Cache.store"
qualname == PyStr(<<67, 97, 99, 104, 101, 46, 115, 116, 111, 114, 101>>)

\* '{}:inputs'.format(name)
in_key(name) == PyStr(name.s \o <<58, 105, 110, 112, 117, 116, 115>>)

\* '{}:outputs'.format(name)
out_key(name) == PyStr(name.s \o <<58, 111, 117, 116, 112, 117, 116, 115>>)

\* str(u) of a UUID: the model's UUIDs are numbered and their text is "u-<number>"
UuidStr(u) == PyStr(<<117, 45>> \o Digits(u))

\* uuid.uuid4(): a UUID the generator has not produced before (the generator is
\* an external collaborator whose 122 random bits are taken never to repeat).
\* The program only copies and compares UUID texts, so the UUIDs are numbered in
\* the order the generator yields them, given the set it has yielded so far.
uuid4(yielded) == {Cardinality(yielded) + 1}

(***************************************************************************)
(* The program.                                                            *)
(***************************************************************************)
Instances == 1..NumInstances
Callers == 1..NumCallers

\* the arguments store is called with: 'é', b'', -7, 1.5 and, of no supported
\* type, None
StoreArgs == {PyStr(<<233>>), PyBytes(<<>>), PyInt(0 - 7), PyFloat(15), PyNone}

\* the keys get is called with: every UUID text, the counter's key, the key of
\* the inputs list, and 'nonexistent-key' (as "n")
GetKeys == {UuidStr(u) : u \in 1..MaxCalls} \cup {qualname, in_key(qualname), PyStr(<<110>>)}

\* transform arguments of get: None, lambda x: x.decode('utf-8'), lambda x: int(x)
Transforms == {"None", "decode", "int"}

\* the methods replay is called with: None, a plain function (no __self__), and the
\* bound methods store and get of an instance
get_qualname == PyStr(<<67, 97, 99, 104, 101, 46, 103, 101, 116>>)
NoMethod == [kind |-> "None", self |-> 0, name |-> qualname]
Methods ==
    {NoMethod, [kind |-> "function", self |-> 0, name |-> qualname]}
        \cup [kind : {"bound"}, self : Instances, name : {qualname, get_qualname}]

VARIABLES
    db,       \* the Redis database
    drawn,    \* the UUIDs uuid4 has produced
    handle,   \* handle[i]: self._redis of Cache object i ("unset": not constructed)
    pc,       \* pc[c]: where caller c is inside a store call ("idle": outside)
    self,     \* self[c]: the Cache object of caller c's store call
    data,     \* data[c]: the argument of caller c's store call
    key,      \* key[c]: the local variable key of store, then result of the wrappers
    ret,      \* ret[c]: the operation caller c last began (op), its arguments
              \* (arg), what it returned (val) and the lines it printed (out)
    calls,    \* history: the store calls begun since the last flush, in
              \* invocation order: argument, key returned, state
    begun,    \* history: the number of store calls begun in the run
    cur,      \* history: cur[c] is the index in calls of caller c's store call,
              \* 0 when a flush has dropped it from calls
    sent,     \* history: sent[c] is the commands the operation caller c last
              \* began has called on self._redis, in the order of the calls
    overlap,  \* history: since the last flush, a store call began while another
              \* store call was in progress
    torn      \* history: the last flush happened while a store call was in progress

\* the arguments recorded in ret: a value or key, a transform, a method
NoArg == [value |-> PyNone, transform |-> "None", method |-> NoMethod]
ArgValue(v) == [value |-> v, transform |-> "None", method |-> NoMethod]
ArgGet(k, transform) == [value |-> k, transform |-> transform, method |-> NoMethod]
ArgMethod(m) == [value |-> PyNone, transform |-> "None", method |-> m]

vars == <<db, drawn, handle, pc, self, data, key, ret, calls, begun, cur, sent, overlap,
          torn>>

\* a variant of isinstance_Redis that takes every handle for a Redis client
isinstance_object(h) == TRUE

\* isinstance(h, redis.Redis)
isinstance_Redis(h) == h = "Redis"

Init ==
    /\ db = EmptyDb
    /\ drawn = {}
    /\ handle = [i \in Instances |-> IF i = 1 THEN "Redis" ELSE "unset"]
    /\ pc = [c \in Callers |-> "idle"]
    /\ self = [c \in Callers |-> 1]
    /\ data = [c \in Callers |-> PyNone]
    /\ key = [c \in Callers |-> PyNone]
    /\ ret = [c \in Callers |-> [op |-> "Cache", arg |-> NoArg, val |-> PyNone, out |-> <<>>]]
    /\ calls = <<>>
    /\ begun = 0
    /\ cur = [c \in Callers |-> 0]
    /\ sent = [c \in Callers |-> <<Cmd("FLUSHDB", <<>>)>>]
    /\ overlap = FALSE
    /\ torn = FALSE

\* what ret[c] holds while the store call store(v) of caller c is under way
Running(v) ==
    [op |-> "store", arg |-> ArgValue(v), val |-> [t |-> "running", n |-> 0, s |-> <<>>],
     out |-> <<>>]

\* caller c leaves the operation op(arg) with value (or exception) val, having
\* printed out
ReturnPrinted(c, op, arg, val, out) ==
    /\ pc' = [pc EXCEPT ![c] = "idle"]
    /\ ret' = [ret EXCEPT ![c] = [op |-> op, arg |-> arg, val |-> val, out |-> out]]

\* the frame of caller c's store call is gone
Unwind(c) ==
    /\ self' = [self EXCEPT ![c] = 1]
    /\ data' = [data EXCEPT ![c] = PyNone]
    /\ key' = [key EXCEPT ![c] = PyNone]
    /\ cur' = [cur EXCEPT ![c] = 0]

Return(c, op, arg, val) == ReturnPrinted(c, op, arg, val, <<>>)

\* caller c begins an operation that calls cmds on self._redis
Sends(c, cmds) == sent' = [sent EXCEPT ![c] = cmds]

\* the operation of caller c goes on to call cmds on self._redis
SendsMore(c, cmds) == sent' = [sent EXCEPT ![c] = sent[c] \o cmds]

(***************************************************************************)
(* Cache.__init__                                                          *)
(***************************************************************************)
Cache_init(c, i) ==
    /\ pc[c] = "idle"
    /\ handle' = [handle EXCEPT ![i] = "Redis"]
    /\ db' = flushdb(db)
    /\ calls' = <<>>
    /\ cur' = [x \in Callers |-> 0]
    /\ Return(c, "Cache", NoArg, PyNone)
    /\ Sends(c, <<Cmd("FLUSHDB", <<>>)>>)
    /\ overlap' = FALSE
    /\ torn' = \E x \in Callers : pc[x] # "idle"
    /\ UNCHANGED <<drawn, self, data, key, begun>>

(***************************************************************************)
(* Cache.store, wrapped by count_calls, wrapped by call_history.  One      *)
(* action per Redis command.                                               *)
(***************************************************************************)
\* a variant of history_input that records str(args[0]) instead of str(args)
history_input_first_arg(d, h, v) ==
    IF isinstance_Redis(h) THEN rpush(d, in_key(qualname), PyStr(Repr(v)))
    ELSE NotSent(d, PyNone)

\* a variant of history_input that appends to the outputs list
history_input_on_outputs(d, h, v) ==
    IF isinstance_Redis(h) THEN rpush(d, out_key(qualname), StrArgs(v))
    ELSE NotSent(d, PyNone)

\* a variant of history_input that appends the record twice
history_input_twice(d, h, v) ==
    IF isinstance_Redis(h)
    THEN rpush(rpush(d, in_key(qualname), StrArgs(v)).db, in_key(qualname), StrArgs(v))
    ELSE NotSent(d, PyNone)

\* call_history.invoker, lines 35-38: what the first rpush does
history_input(d, h, v) ==
    IF isinstance_Redis(h) THEN rpush(d, in_key(qualname), StrArgs(v))
    ELSE NotSent(d, PyNone)

\* a variant of count that uses method.__name__, "store", as the key
count_by_name(d, h) ==
    IF isinstance_Redis(h) THEN incr(d, PyStr(<<115, 116, 111, 114, 101>>))
    ELSE NotSent(d, PyNone)

\* a variant of count in which the append to the outputs list takes the place of
\* the increment, ahead of the write
count_appends_output(d, h) ==
    IF isinstance_Redis(h) THEN rpush(d, out_key(qualname), qualname)
    ELSE NotSent(d, PyNone)

\* count_calls.invoker, lines 20-21
count(d, h) ==
    IF isinstance_Redis(h) THEN incr(d, qualname)
    ELSE NotSent(d, PyNone)

\* a variant of store_set with the arguments of set exchanged
store_set_swapped(d, k, v) == set(d, v, k)

\* Cache.store, line 88, with key the text of the UUID drawn at line 87
store_set(d, k, v) == set(d, k, v)

\* what an object that is no redis.Redis answers to a method call: the object is
\* not the program's, it returns something or it raises (no attribute 'set')
ForeignReplies == {PyNone, Raise(AttributeError)}

\* self._redis.set(key, data) at line 88: the command when the handle is a Redis
\* client, a method call that leaves the database alone when it is another object
self_redis_set(h, d, k, v) ==
    IF h = "Redis" THEN {store_set(d, k, v)}
    ELSE {Sent("SET", Encode(k).s, d, f) : f \in ForeignReplies}

\* a variant of history_output that appends to the inputs list
history_output_on_inputs(d, h, result) ==
    IF isinstance_Redis(h) THEN rpush(d, in_key(qualname), result)
    ELSE NotSent(d, PyNone)

\* a variant of history_output that appends repr(result), the key in quotes
history_output_repr(d, h, result) ==
    IF isinstance_Redis(h) THEN rpush(d, out_key(qualname), PyStr(Repr(result)))
    ELSE NotSent(d, PyNone)

\* call_history.invoker, lines 40-41
history_output(d, h, result) ==
    IF isinstance_Redis(h) THEN rpush(d, out_key(qualname), result)
    ELSE NotSent(d, PyNone)

\* the history of caller c's store call, ended in state st with result k
Ended(c, k, st) ==
    IF cur[c] = 0 THEN calls
    ELSE [calls EXCEPT ![cur[c]].key = k, ![cur[c]].st = st]

\* the store call of caller c ends by an exception
StoreRaises(c, e) ==
    /\ Return(c, "store", ArgValue(data[c]), e)
    /\ calls' = Ended(c, PyNone, "raised")
    /\ Unwind(c)

\* the store call of caller c goes on at position next
StoreGoesOn(c, next) ==
    /\ pc' = [pc EXCEPT ![c] = next]
    /\ UNCHANGED <<ret, calls, self, data, cur>>

call_history_enter(c, i, v) ==
    /\ pc[c] = "idle"
    /\ handle[i] # "unset"
    /\ begun < MaxCalls
    /\ begun' = begun + 1
    /\ \E r \in {history_input(db, handle[i], v)} :
        /\ db' = r.db
        /\ Sends(c, r.cmds)
        /\ IF IsRaise(r.reply)
           THEN /\ Return(c, "store", ArgValue(v), r.reply)
                /\ calls' = Append(calls, [args |-> v, key |-> PyNone, st |-> "raised"])
                /\ UNCHANGED <<self, data, cur>>
           ELSE /\ pc' = [pc EXCEPT ![c] = "count_calls"]
                /\ ret' = [ret EXCEPT ![c] = Running(v)]
                /\ calls' = Append(calls, [args |-> v, key |-> PyNone, st |-> "running"])
                /\ self' = [self EXCEPT ![c] = i]
                /\ data' = [data EXCEPT ![c] = v]
                /\ cur' = [cur EXCEPT ![c] = Len(calls) + 1]
    /\ overlap' = (overlap \/ \E x \in Callers : pc[x] # "idle")
    /\ UNCHANGED <<drawn, handle, key, torn>>

count_calls_invoker(c) ==
    /\ pc[c] = "count_calls"
    /\ \E r \in {count(db, handle[self[c]])} :
        /\ db' = r.db
        /\ SendsMore(c, r.cmds)
        /\ IF IsRaise(r.reply)
           THEN StoreRaises(c, r.reply)
           ELSE StoreGoesOn(c, "store") /\ UNCHANGED key
    /\ UNCHANGED <<drawn, handle, begun, overlap, torn>>

store(c) ==
    /\ pc[c] = "store"
    /\ \E u \in uuid4(drawn) :
       \E r \in self_redis_set(handle[self[c]], db, UuidStr(u), data[c]) :
        /\ drawn' = drawn \cup {u}
        /\ db' = r.db
        /\ SendsMore(c, r.cmds)
        /\ IF IsRaise(r.reply)
           THEN StoreRaises(c, r.reply)
           ELSE /\ StoreGoesOn(c, "call_history_exit")
                /\ key' = [key EXCEPT ![c] = UuidStr(u)]
    /\ UNCHANGED <<handle, begun, overlap, torn>>

call_history_exit(c) ==
    /\ pc[c] = "call_history_exit"
    /\ \E r \in {history_output(db, handle[self[c]], key[c])} :
        /\ db' = r.db
        /\ SendsMore(c, r.cmds)
        /\ IF IsRaise(r.reply)
           THEN StoreRaises(c, r.reply)
           ELSE /\ Return(c, "store", ArgValue(data[c]), key[c])
                /\ calls' = Ended(c, key[c], "returned")
                /\ Unwind(c)
    /\ UNCHANGED <<drawn, handle, begun, overlap, torn>>

\* the command that caller c's store call sends at position pc[c], with key k the
\* text of the UUID line 87 draws
NextCommand(c, k) ==
    CASE pc[c] = "count_calls" -> count(db, handle[self[c]])
      [] pc[c] = "store" -> store_set(db, k, data[c])
      [] OTHER -> history_output(db, handle[self[c]], key[c])

\* the first command of a store call fails with ConnectionError and the call is
\* aborted: the server was not reached, or (applied) it executed the command and
\* the reply was lost
call_history_enter_fails(c, i, v, applied) ==
    /\ pc[c] = "idle"
    /\ handle[i] # "unset"
    /\ begun < MaxCalls
    /\ begun' = begun + 1
    /\ \E r \in {history_input(db, handle[i], v)} :
        /\ r.cmds # <<>>
        /\ db' = IF applied THEN r.db ELSE db
        /\ Sends(c, r.cmds)
        /\ Return(c, "store", ArgValue(v), Raise(ConnectionError))
        /\ calls' = Append(calls, [args |-> v, key |-> PyNone, st |-> "raised"])
    /\ overlap' = (overlap \/ \E x \in Callers : pc[x] # "idle")
    /\ UNCHANGED <<drawn, handle, self, data, key, cur, torn>>

\* a later command of a store call fails with ConnectionError and the call is aborted
command_fails(c, applied) ==
    /\ pc[c] \in {"count_calls", "store", "call_history_exit"}
    /\ \E u \in uuid4(drawn) :
        \E r \in {NextCommand(c, UuidStr(u))} :
        /\ r.cmds # <<>>
        /\ drawn' = IF pc[c] = "store" THEN drawn \cup {u} ELSE drawn
        /\ db' = IF applied THEN r.db ELSE db
        /\ SendsMore(c, r.cmds)
        /\ StoreRaises(c, Raise(ConnectionError))
    /\ UNCHANGED <<handle, begun, overlap, torn>>

(***************************************************************************)
(* Cache.get, Cache.get_str, Cache.get_int                                 *)
(***************************************************************************)
\* transform(x) for the transforms of Transforms
Apply(transform, x) ==
    IF transform = "decode" THEN Utf8Decode(x.s) ELSE PyIntOf(x.s)

\* a variant of Cache_get that tests the truth of data instead of data is not None
Cache_get_truthy(d, k, transform) ==
    LET r == get(d, k) IN
    IF IsRaise(r.reply) THEN r
    ELSE IF transform # "None" /\ r.reply # PyNone /\ r.reply.s # <<>>
         THEN [r EXCEPT !.reply = Apply(transform, r.reply)]
    ELSE r

\* a variant of Cache_get that is wrapped by count_calls
Cache_get_counted(d, k, transform) ==
    LET n == incr(d, qualname)
        g == get(n.db, k)
        r == [g EXCEPT !.cmds = n.cmds \o g.cmds]
    IN
    IF IsRaise(r.reply) THEN r
    ELSE IF transform # "None" /\ r.reply # PyNone
         THEN [r EXCEPT !.reply = Apply(transform, r.reply)]
    ELSE r

\* Cache.get, lines 95-96, as a function of the database
Cache_get(d, k, transform) ==
    LET r == get(d, k) IN
    IF IsRaise(r.reply) THEN r
    ELSE IF transform # "None" /\ r.reply # PyNone
         THEN [r EXCEPT !.reply = Apply(transform, r.reply)]
    ELSE r

\* Cache.get_str, line 102
Cache_get_str(d, k) == Cache_get(d, k, "decode")

\* Cache.get_int, line 108
Cache_get_int(d, k) == Cache_get(d, k, "int")

\* what no operation other than store and Cache() changes
Unchanged_call_state ==
    UNCHANGED <<drawn, handle, self, data, key, calls, begun, cur, overlap, torn>>

get_call(c, k, transform) ==
    /\ pc[c] = "idle"
    /\ \E i \in Instances : handle[i] = "Redis"
    /\ \E r \in {Cache_get(db, k, transform)} :
        /\ db' = r.db
        /\ Sends(c, r.cmds)
        /\ Return(c, "get", ArgGet(k, transform), r.reply)
    /\ Unchanged_call_state

get_str(c, k) ==
    /\ pc[c] = "idle"
    /\ \E i \in Instances : handle[i] = "Redis"
    /\ \E r \in {Cache_get_str(db, k)} :
        /\ db' = r.db
        /\ Sends(c, r.cmds)
        /\ Return(c, "get_str", ArgGet(k, "decode"), r.reply)
    /\ Unchanged_call_state

get_int(c, k) ==
    /\ pc[c] = "idle"
    /\ \E i \in Instances : handle[i] = "Redis"
    /\ \E r \in {Cache_get_int(db, k)} :
        /\ db' = r.db
        /\ Sends(c, r.cmds)
        /\ Return(c, "get_int", ArgGet(k, "int"), r.reply)
    /\ Unchanged_call_state

(***************************************************************************)
(* replay                                                                  *)
(***************************************************************************)
Min(a, b) == IF a < b THEN a ELSE b

\* a variant of zip that pairs the inputs with the outputs taken newest first
zip_newest_first(a, b) ==
    [i \in 1..Min(Len(a), Len(b)) |-> <<a[i], b[Min(Len(a), Len(b)) + 1 - i]>>]

\* zip(a, b): the pairs up to the end of the shorter sequence
zip(a, b) == [i \in 1..Min(Len(a), Len(b)) |-> <<a[i], b[i]>>]

\* the line printed at line 61
HeaderLine(name, times) ==
    [header |-> TRUE, name |-> name.s, count |-> times, args |-> <<>>, output |-> <<>>]

\* the line printed at line 65, for a pair of zip
CallLine(name, pair) ==
    [header |-> FALSE, name |-> name.s, count |-> 0,
     args |-> Utf8Decode(pair[1]).s, output |-> pair[2]]

\* lines 58-60: the counter's value, 0 when its key does not exist
call_count(d, name) ==
    IF exists(d, name) # 0
    THEN (IF get(d, name).reply.t # "bytes" THEN Raise(ResponseError)
          ELSE PyIntOf(get(d, name).reply.s))
    ELSE PyInt(0)

RECURSIVE Decodable(_)
\* how many leading entries of a sequence of pairs have an input that decodes
Decodable(pairs) ==
    IF pairs = <<>> \/ IsRaise(Utf8Decode(Head(pairs)[1])) THEN 0
    ELSE 1 + Decodable(Tail(pairs))

\* a variant of replay_of without the test of the handle at lines 53-54
replay_of_any_handle(d, h, m) ==
    IF m.kind # "bound" THEN [db |-> d, val |-> PyNone, out |-> <<>>, cmds |-> <<>>]
    ELSE LET counted == <<Cmd("EXISTS", Encode(m.name).s)>>
                        \o (IF exists(d, m.name) # 0 THEN get(d, m.name).cmds ELSE <<>>)
         IN
         IF IsRaise(call_count(d, m.name))
         THEN [db |-> d, val |-> call_count(d, m.name), out |-> <<>>, cmds |-> counted]
         ELSE LET pairs == zip(lrange(d, in_key(m.name)), lrange(d, out_key(m.name)))
                  n == Decodable(pairs)
              IN [db |-> d,
                  val |-> IF n < Len(pairs) THEN Raise(UnicodeDecodeError) ELSE PyNone,
                  out |-> <<HeaderLine(m.name, call_count(d, m.name).n)>>
                          \o [j \in 1..n |-> CallLine(m.name, pairs[j])],
                  cmds |-> counted \o <<Cmd("LRANGE", Encode(in_key(m.name)).s),
                                        Cmd("LRANGE", Encode(out_key(m.name)).s)>>]

\* replay, lines 50-65: the database afterwards, None or the exception, and the
\* lines printed
replay_of(d, h, m) ==
    IF m.kind # "bound" THEN [db |-> d, val |-> PyNone, out |-> <<>>, cmds |-> <<>>]
    ELSE IF ~ isinstance_Redis(h[m.self])
         THEN [db |-> d, val |-> PyNone, out |-> <<>>, cmds |-> <<>>]
    ELSE LET counted == <<Cmd("EXISTS", Encode(m.name).s)>>
                        \o (IF exists(d, m.name) # 0 THEN get(d, m.name).cmds ELSE <<>>)
         IN
         IF IsRaise(call_count(d, m.name))
         THEN [db |-> d, val |-> call_count(d, m.name), out |-> <<>>, cmds |-> counted]
         ELSE LET pairs == zip(lrange(d, in_key(m.name)), lrange(d, out_key(m.name)))
                  n == Decodable(pairs)
              IN [db |-> d,
                  val |-> IF n < Len(pairs) THEN Raise(UnicodeDecodeError) ELSE PyNone,
                  out |-> <<HeaderLine(m.name, call_count(d, m.name).n)>>
                          \o [j \in 1..n |-> CallLine(m.name, pairs[j])],
                  cmds |-> counted \o <<Cmd("LRANGE", Encode(in_key(m.name)).s),
                                        Cmd("LRANGE", Encode(out_key(m.name)).s)>>]

replay(c, m) ==
    /\ pc[c] = "idle"
    /\ m.kind = "bound" => handle[m.self] # "unset"
    /\ \E r \in {replay_of(db, handle, m)} :
        /\ db' = r.db
        /\ Sends(c, r.cmds)
        /\ ReturnPrinted(c, "replay", ArgMethod(m), r.val, r.out)
    /\ Unchanged_call_state

(***************************************************************************)
(* A caller replaces the handle of a Cache object by an object that is no  *)
(* redis.Redis (the case the isinstance tests of lines 20, 37, 40 and 53   *)
(* are written for).                                                       *)
(***************************************************************************)
substitute(c, i) ==
    /\ pc[c] = "idle"
    /\ handle[i] = "Redis"
    /\ handle' = [handle EXCEPT ![i] = "Other"]
    /\ Return(c, "substitute", NoArg, PyNone)
    /\ Sends(c, <<>>)
    /\ UNCHANGED <<db, drawn, self, data, key, calls, begun, cur, overlap, torn>>

(***************************************************************************)
(* The program of the repository is synchronous and single-threaded: one   *)
(* caller, whose operations do not overlap.                                *)
(***************************************************************************)
Step(c) ==
    \/ \E i \in Instances : Cache_init(c, i)
    \/ \E i \in Instances, v \in StoreArgs : call_history_enter(c, i, v)
    \/ count_calls_invoker(c)
    \/ store(c)
    \/ call_history_exit(c)
    \/ \E k \in GetKeys, transform \in Transforms : get_call(c, k, transform)
    \/ \E k \in GetKeys : get_str(c, k)
    \/ \E k \in GetKeys : get_int(c, k)
    \/ \E m \in Methods : replay(c, m)

Next == Step(1)

Spec == Init /\ [][Next]_vars

\* the arguments of store in the specifications below: -7 and None
FewArgs == {PyInt(0 - 7), PyNone}

(***************************************************************************)
(* The same caller, who also replaces handles, and does not read.           *)
(***************************************************************************)
MockNext ==
    \/ \E i \in Instances : Cache_init(1, i)
    \/ \E i \in Instances : substitute(1, i)
    \/ \E i \in Instances, v \in FewArgs : call_history_enter(1, i, v)
    \/ count_calls_invoker(1)
    \/ store(1)
    \/ call_history_exit(1)
    \/ \E m \in Methods : replay(1, m)

MockSpec == Init /\ [][MockNext]_vars

(***************************************************************************)
(* Several callers taking turns, each with a Cache object of its own       *)
(* (caller c constructs and uses the object c), all on the one database:   *)
(* an operation begins when no store call is in progress.                  *)
(***************************************************************************)
\* the steps of a store call after its first command
Proceeds(c) ==
    \/ count_calls_invoker(c)
    \/ store(c)
    \/ call_history_exit(c)

TurnsNext ==
    \E c \in Callers :
        \/ (\A x \in Callers : pc[x] = "idle") /\ Cache_init(c, c)
        \/ /\ \A x \in Callers : pc[x] = "idle"
           /\ \E v \in FewArgs : call_history_enter(c, c, v)
        \/ Proceeds(c)

TurnsSpec == Init /\ [][TurnsNext]_vars

(***************************************************************************)
(* Several callers on one database (threads or processes), whose store     *)
(* calls interleave command by command; any command may fail, and a Cache  *)
(* may be constructed at any moment.  The callers share the Cache object 1  *)
(* (the keys of the counter and of the lists do not depend on the object). *)
(***************************************************************************)
ConcStep(c) ==
    \/ Cache_init(c, 1)
    \/ \E v \in FewArgs : call_history_enter(c, 1, v)
    \/ Proceeds(c)
    \/ \E v \in FewArgs, applied \in BOOLEAN : call_history_enter_fails(c, 1, v, applied)
    \/ \E applied \in BOOLEAN : command_fails(c, applied)

ConcNext == \E c \in Callers : ConcStep(c)

ConcSpec == Init /\ [][ConcNext]_vars

(***************************************************************************)
(* Several callers whose store calls interleave, with no failing command   *)
(* and no construction.  Each call is straight-line code, so a caller that *)
(* is scheduled and answered goes on to its next command.                  *)
(***************************************************************************)
\* the arguments of store in this specification: 'é' and -7
SupportedArgs == {PyStr(<<233>>), PyInt(0 - 7)}

FairNext ==
    \E c \in Callers :
        \/ \E v \in SupportedArgs : call_history_enter(c, 1, v)
        \/ Proceeds(c)

FairSpec == Init /\ [][FairNext]_vars /\ \A c \in Callers : WF_vars(Proceeds(c))

(***************************************************************************)
(* What the properties read off a state.  The keys and the expected texts   *)
(* are written out byte by byte, independently of the definitions above.    *)
(***************************************************************************)
\* b'Cache.store'
CounterKey == <<67, 97, 99, 104, 101, 46, 115, 116, 111, 114, 101>>
\* b'Cache.store:inputs'
InputsKey == CounterKey \o <<58, 105, 110, 112, 117, 116, 115>>
\* b'Cache.store:outputs'
OutputsKey == CounterKey \o <<58, 111, 117, 116, 112, 117, 116, 115>>

\* the counter of store as a reader sees it: 0 when its key does not exist
Counter == IF CounterKey \in DOMAIN db THEN DigitsValue(db[CounterKey].s) ELSE 0
\* the inputs and outputs lists of store
Inputs == IF InputsKey \in DOMAIN db THEN db[InputsKey].l ELSE <<>>
Outputs == IF OutputsKey \in DOMAIN db THEN db[OutputsKey].l ELSE <<>>

\* the bytes of str((v,)) for the arguments of StoreArgs
ExpectedRecord(v) ==
    CASE v = PyStr(<<233>>) -> <<40, 39, 195, 169, 39, 44, 41>>
      [] v = PyBytes(<<>>) -> <<40, 98, 39, 39, 44, 41>>
      [] v = PyInt(0 - 7) -> <<40, 45, 55, 44, 41>>
      [] v = PyFloat(15) -> <<40, 49, 46, 53, 44, 41>>
      [] OTHER -> <<40, 78, 111, 110, 101, 44, 41>>

\* the bytes Redis holds for a supported argument of StoreArgs
ExpectedStored(v) ==
    CASE v = PyStr(<<233>>) -> <<195, 169>>
      [] v = PyBytes(<<>>) -> <<>>
      [] v = PyInt(0 - 7) -> <<45, 55>>
      [] OTHER -> <<49, 46, 53>>

\* the store calls since the flush that are in state st
CallsIn(st) == {j \in 1..Len(calls) : calls[j].st = st}
AllReturned == \A j \in 1..Len(calls) : calls[j].st = "returned"

ReadOps == {"get", "get_str", "get_int"}

C2_CounterIsCallCount ==
    Counter = Len(calls) - Cardinality({c \in Callers : pc[c] = "count_calls"})

\* store was called twice on a fresh Cache, then a read was made
C2_Witness == Len(calls) = 2 /\ pc[1] = "idle" /\ Counter = 2 /\ ret[1].op \in ReadOps

(***************************************************************************)
(* C3                                                                      *)
(***************************************************************************)
\* C3: after k successful sequential calls on a fresh Cache both lists have length
\* k, input i is str(args) of call i, output i is the key call i returned, and the
\* value the last call returned is the last output.
C3_HistoryAligned ==
    (pc[1] = "idle" /\ AllReturned) =>
        /\ Len(Inputs) = Len(calls)
        /\ Len(Outputs) = Len(calls)
        /\ \A j \in 1..Len(calls) :
            /\ Inputs[j] = ExpectedRecord(calls[j].args)
            /\ Outputs[j] = calls[j].key.s
            /\ calls[j].key.t = "str"
        /\ (ret[1].op = "store" /\ Len(calls) > 0) =>
            /\ ret[1].val = calls[Len(calls)].key
            /\ ret[1].arg.value = calls[Len(calls)].args

\* two successful calls with different arguments
C3_Witness ==
    /\ pc[1] = "idle" /\ AllReturned /\ Len(calls) = 2
    /\ calls[1].args = PyInt(0 - 7) /\ calls[2].args = PyStr(<<233>>)
    /\ ret[1].op = "store"

(***************************************************************************)
(* C4                                                                      *)
(***************************************************************************)
\* what a read of key k with the given transform must return while the entry of
\* a returned call store(v) is in the store
ExpectedRead(v, transform) ==
    CASE transform = "None" -> PyBytes(ExpectedStored(v))
      [] transform = "decode" -> PyStr(IF v.t = "str" THEN v.s ELSE Utf8Chars(ExpectedStored(v)))
      [] OTHER -> IF v.t = "int" THEN v ELSE Raise(ValueError)

\* C4: for every store call that has returned since the construction, whatever
\* calls followed it: get of its key without transform yields the bytes stored for
\* its argument, get_str yields the argument when it is a str, get_int yields the
\* argument when it is an int; and a read the caller has just made of such a key
\* returned exactly that.
C4_RoundTrip ==
    \A j \in CallsIn("returned") :
        LET k == calls[j].key
            v == calls[j].args
        IN  /\ Cache_get(db, k, "None").reply = PyBytes(ExpectedStored(v))
            /\ v.t = "str" => Cache_get_str(db, k).reply = v
            /\ v.t = "int" => Cache_get_int(db, k).reply = v
            /\ (ret[1].op \in ReadOps /\ ret[1].arg.value = k) =>
                  ret[1].val = ExpectedRead(v, ret[1].arg.transform)

\* get_str has returned the str of the first call after a second call returned
C4_Witness ==
    /\ Len(calls) = 2 /\ AllReturned
    /\ calls[1].args = PyStr(<<233>>)
    /\ ret[1].op = "get_str" /\ ret[1].arg.value = calls[1].key
    /\ ret[1].val = PyStr(<<233>>)

(***************************************************************************)
(* C5                                                                      *)
(***************************************************************************)
\* the transforms by name, on raw bytes
ExpectedTransform(transform, raw) ==
    CASE transform = "None" -> PyBytes(raw)
      [] transform = "decode" -> Utf8Decode(raw)
      [] OTHER -> PyIntOf(raw)

\* what get(k, transform) must return in the current state: None for a key that
\* is absent, the transform of the raw bytes for a key that holds a value, and the
\* error of GET for a key that holds a list
ExpectedGet(k, transform) ==
    IF Utf8Encode(k.s) \notin DOMAIN db THEN PyNone
    ELSE IF db[Utf8Encode(k.s)].type = "list" THEN Raise(ResponseError)
    ELSE ExpectedTransform(transform, db[Utf8Encode(k.s)].s)

\* C5: get, get_str and get_int of a key that is not in the store return None
\* (no exception, the transform not applied); of a key that holds a value they
\* return the transform applied to the raw bytes (the raw bytes without
\* transform); and a read the caller has just made returned exactly that.
C5_MissingKeyIsNone ==
    /\ \A k \in GetKeys :
        /\ \A transform \in Transforms :
            Cache_get(db, k, transform).reply = ExpectedGet(k, transform)
        /\ Cache_get_str(db, k).reply = ExpectedGet(k, "decode")
        /\ Cache_get_int(db, k).reply = ExpectedGet(k, "int")
    /\ ret[1].op \in ReadOps =>
          ret[1].val = ExpectedGet(ret[1].arg.value, ret[1].arg.transform)

\* get_int of 'nonexistent-key' has returned None while the store holds entries
C5_Witness ==
    /\ ret[1].op = "get_int" /\ ret[1].arg.value = PyStr(<<110>>)
    /\ ret[1].val = PyNone
    /\ Len(calls) = 2 /\ AllReturned

(***************************************************************************)
(* C6                                                                      *)
(***************************************************************************)
\* C6: right after any construction the store is empty: the counter reads 0, both
\* lists are empty and no key of an earlier store call is retrievable.
C6_ConstructionFlushes ==
    ret[1].op = "Cache" =>
        /\ DOMAIN db = {}
        /\ call_count(db, qualname) = PyInt(0)
        /\ Counter = 0 /\ Inputs = <<>> /\ Outputs = <<>>
        /\ \A k \in GetKeys : Cache_get(db, k, "None").reply = PyNone

\* a second Cache has just been constructed after two store calls
C6_Witness == ret[1].op = "Cache" /\ begun = 2 /\ Cardinality(drawn) = 2 /\ handle[2] = "Redis"

(***************************************************************************)
(* C7                                                                      *)
(***************************************************************************)
\* C7: when set raises in a store call, the caller gets the exception, the
\* inputs list and the counter both count the failed call (its record is the last
\* input), and the outputs list has no entry for it: it is shorter than the
\* inputs list by one entry for every call that raised.
C7_FailedCallCounted ==
    (ret[1].op = "store" /\ IsRaise(ret[1].val)) =>
        /\ ret[1].val = Raise(DataError)
        /\ pc[1] = "idle"
        /\ Len(calls) > 0
        /\ calls[Len(calls)].st = "raised"
        /\ Len(Inputs) = Len(calls)
        /\ Inputs[Len(calls)] = ExpectedRecord(ret[1].arg.value)
        /\ Counter = Len(calls)
        /\ Len(Outputs) = Cardinality(CallsIn("returned"))
        /\ Len(Inputs) = Len(Outputs) + Cardinality(CallsIn("raised"))

\* store(None) has raised after a call that returned
C7_Witness ==
    /\ ret[1].op = "store" /\ IsRaise(ret[1].val)
    /\ Len(Inputs) = 2 /\ Counter = 2 /\ Len(Outputs) = 1

(***************************************************************************)
(* C8                                                                      *)
(***************************************************************************)
\* C8: replay of the bound method store prints a header with the counter's value
\* (0 when the key does not exist), then min(len(inputs), len(outputs)) lines,
\* line i made of input i decoded and output i, oldest first; replay of a bound
\* method that is not tracked prints the header with 0 and no line.
C8_ReplayReport ==
    (ret[1].op = "replay" /\ ret[1].arg.method.kind = "bound") =>
        LET m == ret[1].arg.method
            out == ret[1].out
            tracked == m.name = qualname
            n == IF tracked THEN Min(Len(Inputs), Len(Outputs)) ELSE 0
        IN  /\ ret[1].val = PyNone
            /\ Len(out) = 1 + n
            /\ out[1].header /\ out[1].name = m.name.s
            /\ out[1].count = IF tracked THEN Counter ELSE 0
            /\ \A j \in 1..n :
                /\ ~ out[j + 1].header /\ out[j + 1].name = m.name.s
                /\ Utf8Encode(out[j + 1].args) = Inputs[j]
                /\ out[j + 1].output = Outputs[j]

\* replay has printed a header saying 2 and a single line
C8_Witness ==
    /\ ret[1].op = "replay" /\ ret[1].arg.method.kind = "bound"
    /\ Len(ret[1].out) = 2 /\ ret[1].out[1].count = 2

(***************************************************************************)
(* C10                                                                     *)
(***************************************************************************)
\* a step that is a call of get, get_str or get_int by the caller: these are the
\* steps that leave the name of one of them in ret
ReadStep == ret'[1].op \in ReadOps

\* C10: a call of get, get_str or get_int (key present or absent, with or without
\* transform, returning or raising) changes nothing in the store: not the
\* counter, not the lists, not an entry.
C10_ReadsChangeNothing == [][ReadStep => db' = db]_vars

\* get with the int transform has returned the int of an entry, out of a store
\* that holds two entries, the counter and both lists
C10_Witness ==
    /\ ret[1].op = "get" /\ ret[1].arg.transform = "int" /\ ret[1].val = PyInt(0 - 7)
    /\ Counter = 2 /\ Len(Inputs) = 2 /\ Len(Outputs) = 2

(***************************************************************************)
(* C11                                                                     *)
(***************************************************************************)
\* a is an initial part of b
IsPrefix(a, b) == Len(a) <= Len(b) /\ \A j \in 1..Len(a) : a[j] = b[j]

\* the commands of a store call whose UUID is number u, in the order claimed
OrderOfStore(u) ==
    <<Cmd("RPUSH", InputsKey), Cmd("INCR", CounterKey), Cmd("SET", <<117, 45, 48 + u>>),
      Cmd("RPUSH", OutputsKey)>>

\* C11: the commands a store call has sent are, at every moment of the call and
\* after it, an initial part of: RPUSH inputs, INCR counter, SET fresh key, RPUSH
\* outputs; one command has been sent when the call is about to increment, two
\* when it is about to write, three when it is about to append the output, and
\* all four when it has returned its key.
C11_FixedOrder ==
    \A c \in Callers :
        ret[c].op = "store" =>
            /\ \E u \in 1..MaxCalls : IsPrefix(sent[c], OrderOfStore(u))
            /\ pc[c] = "count_calls" => Len(sent[c]) = 1
            /\ pc[c] = "store" => Len(sent[c]) = 2
            /\ pc[c] = "call_history_exit" => Len(sent[c]) = 3
            /\ ret[c].val.t = "str" => Len(sent[c]) = 4

\* a call has returned after its four commands while the call of another caller
\* is between its commands
C11_Witness ==
    \E c, x \in Callers :
        /\ ret[c].op = "store" /\ ret[c].val.t = "str" /\ Len(sent[c]) = 4
        /\ ret[x].op = "store" /\ pc[x] = "store" /\ Len(sent[x]) = 2

StoreCallStep == pc[1] # "idle" \/ pc'[1] # "idle"
ObjectOfStep == IF pc[1] = "idle" THEN self'[1] ELSE self[1]

\* C13: every step of a store call on an object whose handle is no redis.Redis
\* leaves the counter and both lists as they are and calls neither incr nor rpush
\* on the handle; the history wrapper goes on to the counter wrapper, the counter
\* wrapper to store, store calls set on the handle, and the wrappers return the
\* key store returned (or let the exception store raised pass).
C13_ForeignHandle ==
    [][(StoreCallStep /\ handle[ObjectOfStep] = "Other") =>
        /\ Counter' = Counter /\ Inputs' = Inputs /\ Outputs' = Outputs
        /\ \A j \in 1..Len(sent'[1]) : sent'[1][j].name \notin {"INCR", "RPUSH"}
        /\ pc[1] = "idle" => pc'[1] = "count_calls"
        /\ pc[1] = "count_calls" => pc'[1] = "store"
        /\ pc[1] = "store" =>
            /\ Len(sent'[1]) = 1 /\ sent'[1][1].name = "SET"
            /\ \/ pc'[1] = "call_history_exit" /\ key'[1].t = "str"
               \/ pc'[1] = "idle" /\ ret'[1].val = Raise(AttributeError)
        /\ pc[1] = "call_history_exit" =>
            pc'[1] = "idle" /\ ret'[1].op = "store" /\ ret'[1].val = key[1]
      ]_vars

\* a store call on an object with a foreign handle has returned its key, after a
\* counted call, and the counter and the lists are those of the counted call
C13_Witness ==
    /\ \E i \in Instances : handle[i] = "Other"
    /\ Len(calls) = 2 /\ AllReturned
    /\ ret[1].op = "store" /\ ret[1].val = calls[2].key /\ ret[1].val.t = "str"
    /\ Len(sent[1]) = 1
    /\ Counter = 1 /\ Len(Inputs) = 1 /\ Len(Outputs) = 1

(***************************************************************************)
(* C14                                                                     *)
(***************************************************************************)
\* replay(m) returns at one of its guards: m is None, m has no __self__, or the
\* handle of m.__self__ is no redis.Redis
Guarded(m, h) == m.kind = "None" \/ m.kind = "function" \/ h[m.self] = "Other"

\* C14: every call of replay leaves the database as it is; a call that meets a
\* guard prints nothing, returns None (raises nothing) and calls nothing on the
\* handle.
C14_ReplayGuards ==
    [][ret'[1].op = "replay" =>
        /\ db' = db
        /\ Guarded(ret'[1].arg.method, handle) =>
            ret'[1].out = <<>> /\ ret'[1].val = PyNone /\ sent'[1] = <<>>
      ]_vars

\* replay has returned at the guard of the handle, for the store method of an
\* object with a foreign handle, over a database that holds a counted call
C14_Witness ==
    /\ ret[1].op = "replay"
    /\ ret[1].arg.method.kind = "bound" /\ ret[1].arg.method.name = qualname
    /\ handle[ret[1].arg.method.self] = "Other"
    /\ ret[1].out = <<>> /\ ret[1].val = PyNone /\ sent[1] = <<>>
    /\ Counter = 1 /\ Len(Inputs) = 1 /\ Len(Outputs) = 1

(***************************************************************************)
(* C15                                                                     *)
(***************************************************************************)
\* C15: unless the last flush happened while a store call was in progress,
\* len(outputs) <= counter <= len(inputs), whatever the interleaving of the
\* calls and whichever commands have failed.
C15_Ordering == ~ torn => (Len(Outputs) <= Counter /\ Counter <= Len(Inputs))

\* no flush has torn a call; two calls overlapped, one was aborted by a failing
\* command, and the three numbers differ
C15_Witness ==
    /\ ~ torn /\ overlap
    /\ \E c \in Callers : ret[c].op = "store" /\ ret[c].val = Raise(ConnectionError)
    /\ Len(Outputs) < Counter /\ Counter < Len(Inputs)

\* the second half of C15, a state that is reached: after a flush between the
\* steps of a call the counter is 1 and the inputs list is empty
C15_TornByFlush == torn /\ Counter = 1 /\ Inputs = <<>>

(***************************************************************************)
(* C16                                                                     *)
(***************************************************************************)
\* no store call is in progress
Quiescent == \A c \in Callers : pc[c] = "idle"

\* C16: with calls of several callers interleaved, no failing command and no
\* construction, every call ends, and ends by returning its key (no caller stays
\* inside a call for ever: each is outside of its calls again and again, and a
\* call that has ended has returned a key), and in every state in which no call
\* is in progress len(inputs) = len(outputs) = counter = the number of calls that
\* have completed.
C16_CompleteAndEqual ==
    /\ [](Quiescent =>
            /\ Len(Inputs) = Len(Outputs)
            /\ Len(Outputs) = Counter
            /\ Counter = Cardinality(CallsIn("returned"))
            /\ AllReturned)
    /\ [](\A c \in Callers :
            (pc[c] = "idle" /\ ret[c].op = "store") => ret[c].val.t = "str")
    /\ \A c \in Callers : []<>(pc[c] = "idle")

\* two calls that overlapped have both completed
C16_Witness ==
    /\ Quiescent /\ overlap
    /\ Cardinality(CallsIn("returned")) = 2
    /\ Counter = 2 /\ Len(Inputs) = 2 /\ Len(Outputs) = 2

(***************************************************************************)
(* C17                                                                     *)
(***************************************************************************)
\* the keys written by the store calls begun since the last construction
KeysSinceConstruction ==
    {calls[j].key.s : j \in CallsIn("returned")}
        \cup {key[c].s : c \in {x \in Callers : pc[x] = "call_history_exit" /\ cur[x] # 0}}

\* C17: the one counter and the one pair of lists count the store calls made on
\* every Cache object since the most recent construction (between calls the
\* counter and the length of the inputs list are the number of those calls,
\* whichever objects they were made on, and the inputs list holds their records
\* in invocation order); a construction leaves the database empty, and get on a
\* key returned before the most recent construction returns None.
C17_SharedAndErased ==
    /\ Quiescent => (Counter = Len(calls) /\ Len(Inputs) = Len(calls))
    /\ \A j \in 1..Min(Len(calls), Len(Inputs)) : Inputs[j] = ExpectedRecord(calls[j].args)
    /\ \A c \in Callers :
        (Quiescent /\ ret[c].op = "Cache" /\ calls = <<>>) => (DOMAIN db = {} /\ Counter = 0)
    /\ \A u \in drawn :
        <<117, 45, 48 + u>> \notin KeysSinceConstruction =>
            /\ <<117, 45, 48 + u>> \notin DOMAIN db
            /\ Cache_get(db, [t |-> "str", n |-> 0, s |-> <<117, 45, 48 + u>>], "None").reply
                = PyNone

\* two Cache objects are live and since the most recent construction a store
\* call has been made on each by its caller (the two calls of the run): the
\* counter is 2
C17_Witness ==
    /\ handle[1] = "Redis" /\ handle[2] = "Redis"
    /\ begun = 2 /\ Len(calls) = 2 /\ AllReturned /\ Quiescent
    /\ ret[1].op = "store" /\ ret[1].val = calls[1].key
    /\ ret[2].op = "store" /\ ret[2].val = calls[2].key
    /\ Counter = 2 /\ Len(Inputs) = 2

\* a state that is reached: the key returned by a call on object 1 is gone once
\* object 2 has been constructed, and get returns None for it
C17_ErasedBySecond ==
    /\ ret[1].op = "store" /\ ret[1].val.t = "str" /\ begun = 1
    /\ ret[2].op = "Cache" /\ handle[2] = "Redis"
    /\ DOMAIN db = {} /\ Counter = 0 /\ Inputs = <<>> /\ Outputs = <<>>
    /\ Cache_get(db, ret[1].val, "None").reply = PyNone

====
